---- MODULE Spec2Model ----
(***************************************************************************)
(* FEN2SVG (src/fen2svg.c, src/linkedlist.c): a model of the program that  *)
(* turns FEN strings into SVG diagrams.                                    *)
(*                                                                         *)
(* C strings are sequences of one-character strings; the terminating '\0'  *)
(* is the position one past the end (CharAt gives NUL there).  A linked    *)
(* list (LinkedList/ListItem) is the sequence of its items' values in the  *)
(* order of the Next pointers; a LinkedList* that may be NULL is a record  *)
(* [null, items].  An SVG line produced by snprintf is a record holding    *)
(* the format it was printed with (tag) and the values printed into it.    *)
(***************************************************************************)
EXTENDS Integers, Sequences, FiniteSets, TLC

(***************************************************************************)
(* Program constants (src/fen2svg.c:51-69).                                *)
(***************************************************************************)
SQUARE_WIDTH == 72
SQUARE_HEIGHT == 72
BORDER_THICKNESS == 2
HORIZONTAL_COORDINATES_HEIGHT == 48
VERTICAL_COORDINATES_WIDTH == 48
MOVE_INDICATOR_WIDTH == 72

(***************************************************************************)
(* Bounds of the model.                                                    *)
(***************************************************************************)
\* longest batch of positions given to one run
MaxBatch == 2
\* longest tail of free characters of a generated placement field
MaxTail == 2

(***************************************************************************)
(* C strings.                                                              *)
(***************************************************************************)
NUL == ""

\* s[nPos] of a NUL-terminated C string, nPos counted from 0
CharAt(s, nPos) == IF nPos < Len(s) THEN s[nPos + 1] ELSE NUL

\* strchr(s, c) for c # '\0': the 1-based index of the first c in s, 0 for NULL
StrChr(s, c) ==
    LET found == {i \in 1..Len(s) : s[i] = c}
    IN  IF found = {} THEN 0 ELSE CHOOSE i \in found : \A j \in found : i <= j

\* strncmp(p, s, n) == 0: the first n characters agree (p has at least n)
StrNCmpEq(p, s, n) == \A i \in 0..(n - 1) : CharAt(p, i) = CharAt(s, i)

\* the value of a character that is > '0' and < '9'
DigitChars == <<"1", "2", "3", "4", "5", "6", "7", "8">>

Range(s) == {s[i] : i \in 1..Len(s)}

DigitSet == Range(DigitChars)

DigitIndex == [c \in DigitSet |-> StrChr(DigitChars, c)]

IsDigit1to8(c) == c \in DigitSet

DigitValue(c) == DigitIndex[c]

(***************************************************************************)
(* SVG lines: the format string of the snprintf and its arguments.         *)
(***************************************************************************)
UseLine(href, x, y) == [tag |-> "use", href |-> href, x |-> x, y |-> y]

IndicatorLine(fill, x, y) == [tag |-> "moveindicator", fill |-> fill, x |-> x, y |-> y]

BorderLine(x) == [tag |-> "borders", x |-> x, y |-> 0]

CoordinateLine(c, x, y) == [tag |-> "coordinate", href |-> c, x |-> x, y |-> y]

SvgOpenLine(w, h) == [tag |-> "svgopen", width |-> w, height |-> h]

TextLine(s) == [tag |-> "text", text |-> s]

ClosingLine == TextLine(<<"<", "/", "s", "v", "g", ">">>)

\* the characters a line starts with, as strncmp sees them
LinePrefix(l) == IF l.tag = "text" THEN l.text ELSE IF l.tag = "svgopen" THEN <<"<", "s", "v", "g", " ", "w">> ELSE <<" ", " ", " ", " ", "<", "u">>

(***************************************************************************)
(* computeWholeDrawingWidth / computeWholeDrawingHeight                    *)
(***************************************************************************)
\* the room of the move indicator is always counted
computeWholeDrawingWidthWithIndicator(bCoordinates, bBorder, bMoveIndicator) ==
    (IF bCoordinates THEN VERTICAL_COORDINATES_WIDTH ELSE 0)
    + (IF bBorder THEN BORDER_THICKNESS ELSE 0)
    + 8 * SQUARE_WIDTH
    + (IF bBorder THEN BORDER_THICKNESS ELSE 0)
    + MOVE_INDICATOR_WIDTH

computeWholeDrawingWidth(bCoordinates, bBorder, bMoveIndicator) ==
    (IF bCoordinates THEN VERTICAL_COORDINATES_WIDTH ELSE 0)
    + (IF bBorder THEN BORDER_THICKNESS ELSE 0)
    + 8 * SQUARE_WIDTH
    + (IF bBorder THEN BORDER_THICKNESS ELSE 0)
    + (IF bMoveIndicator THEN MOVE_INDICATOR_WIDTH ELSE 0)

computeWholeDrawingHeight(bCoordinates, bBorder) ==
    (IF bBorder THEN BORDER_THICKNESS ELSE 0)
    + 8 * SQUARE_HEIGHT
    + (IF bBorder THEN BORDER_THICKNESS ELSE 0)
    + (IF bCoordinates THEN HORIZONTAL_COORDINATES_HEIGHT ELSE 0)

(***************************************************************************)
(* isWhiteToPlay                                                           *)
(***************************************************************************)
\* the loops below run their body n times, the first half of the turns and
\* then, from the state m these end in, the second half; a body whose guard
\* is false leaves the state alone, so any n that is at least the number of
\* iterations of the loop gives the state the loop ends in
RECURSIVE SkipToBlank(_, _, _)
\* while (sFEN[nPos] != '\0' && sFEN[nPos] != ' ') nPos++
SkipToBlank(sFEN, n, nPos) ==
    IF n <= 1
    THEN IF CharAt(sFEN, nPos) # NUL /\ CharAt(sFEN, nPos) # " " THEN nPos + 1 ELSE nPos
    ELSE CHOOSE r \in {SkipToBlank(sFEN, n - (n \div 2), m) : m \in {SkipToBlank(sFEN, n \div 2, nPos)}} : TRUE

RECURSIVE SkipBlanks(_, _, _)
\* while (sFEN[nPos] != '\0' && sFEN[nPos] == ' ') nPos++
SkipBlanks(sFEN, n, nPos) ==
    IF n <= 1
    THEN IF CharAt(sFEN, nPos) # NUL /\ CharAt(sFEN, nPos) = " " THEN nPos + 1 ELSE nPos
    ELSE CHOOSE r \in {SkipBlanks(sFEN, n - (n \div 2), m) : m \in {SkipBlanks(sFEN, n \div 2, nPos)}} : TRUE

\* the character after the first blank decides
isWhiteToPlayAfterOneBlank(sFEN) ==
    LET nPos == SkipToBlank(sFEN, Len(sFEN) + 1, 0) + 1
    IN  ~(CharAt(sFEN, nPos) # NUL /\ CharAt(sFEN, nPos) = "b")

isWhiteToPlay(sFEN) ==
    LET nPos == SkipBlanks(sFEN, Len(sFEN) + 1, SkipToBlank(sFEN, Len(sFEN) + 1, 0))
    IN  ~(CharAt(sFEN, nPos) # NUL /\ CharAt(sFEN, nPos) = "b")

(***************************************************************************)
(* createPieces                                                            *)
(***************************************************************************)
sFENPiece == <<"B", "b", "K", "k", "N", "n", "P", "p", "Q", "q", "R", "r">>

asSVGPiece == <<"whitebishop", "blackbishop", "whiteking", "blackking", "whiteknight", "blackknight", "whitepawn", "blackpawn", "whitequeen", "blackqueen", "whiterook", "blackrook">>

PieceSet == Range(sFENPiece)

PieceIndex == [c \in PieceSet |-> StrChr(sFENPiece, c)]

\* the test that chooses the "white at bottom" snprintf (line 295)
piecesWhiteAtBottom(bWhiteToPlay, bRotateBoard) == bWhiteToPlay \/ ~bRotateBoard

\* the column taken for the row
pieceXByRow(nSquareCount, bWhiteAtBottom, nTranslateX) ==
    IF bWhiteAtBottom
    THEN SQUARE_WIDTH * (nSquareCount \div 8) + nTranslateX
    ELSE SQUARE_WIDTH * (7 - (nSquareCount \div 8)) + nTranslateX

\* the x argument of the snprintf of a piece (lines 301 and 312)
pieceX(nSquareCount, bWhiteAtBottom, nTranslateX) ==
    IF bWhiteAtBottom
    THEN SQUARE_WIDTH * (nSquareCount % 8) + nTranslateX
    ELSE SQUARE_WIDTH * (7 - (nSquareCount % 8)) + nTranslateX

\* the row is not mirrored when black is at the bottom
pieceYNotMirrored(nSquareCount, bWhiteAtBottom, nTranslateY) ==
    SQUARE_HEIGHT * (nSquareCount \div 8) + nTranslateY

\* the y argument of the snprintf of a piece (lines 302 and 313)
pieceY(nSquareCount, bWhiteAtBottom, nTranslateY) ==
    IF bWhiteAtBottom
    THEN SQUARE_HEIGHT * (nSquareCount \div 8) + nTranslateY
    ELSE SQUARE_HEIGHT * (7 - (nSquareCount \div 8)) + nTranslateY

\* the guard of the parsing loop (line 285)
parseContinues(c, nSquareCount) == c # NUL /\ c # " " /\ nSquareCount < 64

\* a loop that lets every other character pass
otherCharacterSkipsAll(c) == "skip"

\* what the loop does with a character that is neither a digit nor a piece
\* letter (lines 320-327): "skip" for '/', "fail" for anything else
otherCharacter(c) == IF c = "/" THEN "skip" ELSE "fail"

\* one turn of the while loop of lines 285-330; o holds bWhiteAtBottom and
\* the translation, s the position, the square count, the list and the
\* "return false" of line 326
parseStep(sFEN, o, s) ==
    LET cCurrentChar == CharAt(sFEN, s.nPos)
        pFound == IF cCurrentChar \in PieceSet THEN PieceIndex[cCurrentChar] ELSE 0
    IN  IF s.null \/ ~parseContinues(cCurrentChar, s.nSquareCount)
        THEN s
        ELSE IF IsDigit1to8(cCurrentChar)
        THEN [s EXCEPT !.nPos = @ + 1, !.nSquareCount = @ + DigitValue(cCurrentChar)]
        ELSE IF pFound # 0
        THEN [s EXCEPT !.nPos = @ + 1, !.nSquareCount = @ + 1,
                       !.items = Append(@, UseLine(asSVGPiece[pFound],
                                                   pieceX(s.nSquareCount, o.bWhiteAtBottom, o.nTranslateX),
                                                   pieceY(s.nSquareCount, o.bWhiteAtBottom, o.nTranslateY)))]
        ELSE IF otherCharacter(cCurrentChar) = "skip"
        THEN [s EXCEPT !.nPos = @ + 1]
        ELSE [s EXCEPT !.null = TRUE, !.items = <<>>, !.errChar = cCurrentChar]

RECURSIVE parsePlacement(_, _, _, _)
\* the while loop of lines 285-330
parsePlacement(sFEN, o, n, s) ==
    IF n <= 1
    THEN parseStep(sFEN, o, s)
    ELSE CHOOSE r \in {parsePlacement(sFEN, o, n - (n \div 2), m) : m \in {parsePlacement(sFEN, o, n \div 2, s)}} : TRUE

\* an indicator that is white whoever is to move
moveIndicatorAlwaysWhite(bWhiteToPlay, bBorder, bCoordinates) ==
    IndicatorLine("white",
                  SQUARE_WIDTH * 8 + (IF bCoordinates THEN VERTICAL_COORDINATES_WIDTH ELSE 0) + (IF bBorder THEN BORDER_THICKNESS + BORDER_THICKNESS ELSE 0),
                  SQUARE_HEIGHT * 7 + (IF bBorder THEN BORDER_THICKNESS ELSE 0))

\* the move indicator appended after the loop (lines 332-369)
moveIndicator(bWhiteToPlay, bBorder, bCoordinates) ==
    LET nTranslateX == (IF bCoordinates THEN VERTICAL_COORDINATES_WIDTH ELSE 0)
                       + (IF bBorder THEN BORDER_THICKNESS + BORDER_THICKNESS ELSE 0)
        nTranslateY == IF bBorder THEN BORDER_THICKNESS ELSE 0
    IN  IndicatorLine(IF bWhiteToPlay THEN "white" ELSE "black",
                      SQUARE_WIDTH * 8 + nTranslateX, SQUARE_HEIGHT * 7 + nTranslateY)

\* createPieces: [null |-> TRUE] is the NULL of "return false" (line 326)
createPieces(sFEN, bBorder, bCoordinates, bMoveIndicator, bRotateBoard) ==
    LET bWhiteToPlay == isWhiteToPlay(sFEN)
        o == [bWhiteAtBottom |-> piecesWhiteAtBottom(bWhiteToPlay, bRotateBoard),
              nTranslateX |-> (IF bCoordinates THEN VERTICAL_COORDINATES_WIDTH ELSE 0)
                              + (IF bBorder THEN BORDER_THICKNESS ELSE 0),
              nTranslateY |-> IF bBorder THEN BORDER_THICKNESS ELSE 0]
        r == parsePlacement(sFEN, o, Len(sFEN) + 1,
                            [null |-> FALSE, items |-> <<>>, nSquareCount |-> 0, nPos |-> 0, errChar |-> NUL])
    IN  IF r.null
        THEN [null |-> TRUE, items |-> <<>>, errChar |-> r.errChar, errPos |-> r.nPos, nSquareCount |-> r.nSquareCount]
        ELSE [null |-> FALSE,
              items |-> IF bMoveIndicator
                        THEN Append(r.items, moveIndicator(bWhiteToPlay, bBorder, bCoordinates))
                        ELSE r.items,
              errChar |-> NUL, errPos |-> r.nPos, nSquareCount |-> r.nSquareCount]

(***************************************************************************)
(* generateEmptyBoard                                                      *)
(***************************************************************************)
FileChars == <<"a", "b", "c", "d", "e", "f", "g", "h">>

\* one turn of the inner for loop of lines 554-579, with the end of the
\* outer turn when the row is complete
\* the row end toggles the colour like every other square
squareStepStriped(nTranslateX, nTranslateY, s) ==
    IF s.nY >= 8 THEN s
    ELSE LET line == UseLine(IF s.bLightSquare THEN "lightsquare" ELSE "darksquare", s.nX * SQUARE_WIDTH + nTranslateX, s.nY * SQUARE_HEIGHT + nTranslateY)
         IN  IF s.nX < 7 THEN [s EXCEPT !.nX = @ + 1, !.bLightSquare = ~@, !.lst = Append(@, line)]
             ELSE [s EXCEPT !.nX = 0, !.nY = @ + 1, !.bLightSquare = ~@, !.lst = Append(@, line)]

squareStep(nTranslateX, nTranslateY, s) ==
    IF s.nY >= 8
    THEN s
    ELSE LET line == UseLine(IF s.bLightSquare THEN "lightsquare" ELSE "darksquare",
                             s.nX * SQUARE_WIDTH + nTranslateX, s.nY * SQUARE_HEIGHT + nTranslateY)
         IN  IF s.nX < 7
             THEN [s EXCEPT !.nX = @ + 1, !.bLightSquare = ~@, !.lst = Append(@, line)]
             \* switched after the square, and once more after the row
             ELSE [s EXCEPT !.nX = 0, !.nY = @ + 1, !.lst = Append(@, line)]

RECURSIVE squaresLoop(_, _, _, _)
\* the two nested for loops of lines 554-579
squaresLoop(nTranslateX, nTranslateY, n, s) ==
    IF n <= 1
    THEN squareStep(nTranslateX, nTranslateY, s)
    ELSE CHOOSE r \in {squaresLoop(nTranslateX, nTranslateY, n - (n \div 2), m) : m \in {squaresLoop(nTranslateX, nTranslateY, n \div 2, s)}} : TRUE

\* rank labels that run from 8 down to 1 whatever the orientation
rankLabelCharDescending(k, bWhiteAtBottom) == DigitChars[9 - k]

\* the character of the k-th (k = 1..8) vertical coordinate (lines 609, 623)
rankLabelChar(k, bWhiteAtBottom) == IF bWhiteAtBottom THEN DigitChars[9 - k] ELSE DigitChars[k]

\* the character of the k-th (k = 1..8) horizontal coordinate (lines 645, 663)
fileLabelChar(k, bWhiteAtBottom) == IF bWhiteAtBottom THEN FileChars[k] ELSE FileChars[9 - k]

\* the vertical coordinates (lines 604-635): x is the literal 0
rankLabels(bWhiteAtBottom) ==
    [k \in 1..8 |-> CoordinateLine(rankLabelChar(k, bWhiteAtBottom), 0,
                                   (k - 1) * SQUARE_HEIGHT + BORDER_THICKNESS)]

\* the horizontal coordinates (lines 636-679)
fileLabels(bWhiteAtBottom) ==
    [k \in 1..8 |-> CoordinateLine(fileLabelChar(k, bWhiteAtBottom),
                                   (k - 1) * SQUARE_WIDTH + VERTICAL_COORDINATES_WIDTH + BORDER_THICKNESS,
                                   8 * SQUARE_HEIGHT + BORDER_THICKNESS + BORDER_THICKNESS)]

generateEmptyBoard(bBorder, bCoordinates, bMoveIndicator, bWhiteAtBottom) ==
    LET nTranslateX == (IF bCoordinates THEN VERTICAL_COORDINATES_WIDTH ELSE 0)
                       + (IF bBorder THEN BORDER_THICKNESS ELSE 0)
        nTranslateY == IF bBorder THEN BORDER_THICKNESS ELSE 0
    IN  squaresLoop(nTranslateX, nTranslateY, 64, [nX |-> 0, nY |-> 0, bLightSquare |-> TRUE, lst |-> <<>>]).lst
        \o (IF bBorder THEN <<BorderLine(IF bCoordinates THEN VERTICAL_COORDINATES_WIDTH ELSE 0)>> ELSE <<>>)
        \o (IF bCoordinates THEN rankLabels(bWhiteAtBottom) \o fileLabels(bWhiteAtBottom) ELSE <<>>)

(***************************************************************************)
(* readTemplate / addLengthsToTemplate                                     *)
(***************************************************************************)
\* a template file is "missing" (fopen fails) or the sequence of its raw
\* lines as fgets returns them, the '\n' included
NoFile == [exists |-> FALSE, lines |-> <<>>]

File(lines) == [exists |-> TRUE, lines |-> lines]

\* lines 431-436: remove the trailing '\n' of a line read by fgets
stripNewline(sBuffer) ==
    IF Len(sBuffer) > 0 /\ sBuffer[Len(sBuffer)] = "\n"
    THEN SubSeq(sBuffer, 1, Len(sBuffer) - 1)
    ELSE sBuffer

\* readTemplate: NULL when the file cannot be opened, else its lines
readTemplate(file) ==
    IF ~file.exists
    THEN [null |-> TRUE, items |-> <<>>]
    ELSE [null |-> FALSE, items |-> [i \in 1..Len(file.lines) |-> TextLine(stripNewline(file.lines[i]))]]

SvgOpenMarker == <<"<", "s", "v", "g">>

SvgCloseMarker == <<"<", "/", "s", "v", "g", ">">>

\* the test of the first line (line 473)
firstLineOk(sValue) == StrNCmpEq(SvgOpenMarker, sValue, 4)

\* the test of the last line (lines 500-502)
lastLineOk(sValue) == StrNCmpEq(SvgCloseMarker, sValue, Len(SvgCloseMarker))

\* addLengthsToTemplate on the items of a list: [ok, items, diag]; the items
\* are modified in place, so a failure after the first line keeps its change
addLengthsToTemplate(items, bBorder, bCoordinates, bMoveIndicator) ==
    IF items = <<>>
    THEN [ok |-> FALSE, items |-> items, diag |-> "Template first line not found"]
    ELSE IF ~firstLineOk(LinePrefix(items[1]))
    THEN [ok |-> FALSE, items |-> items, diag |-> "Template first line is not '<svg'"]
    ELSE LET opened == [items EXCEPT ![1] = SvgOpenLine(computeWholeDrawingWidth(bCoordinates, bBorder, bMoveIndicator),
                                                         computeWholeDrawingHeight(bCoordinates, bBorder))]
             last == Len(opened)
         IN  IF lastLineOk(LinePrefix(opened[last]))
             THEN [ok |-> TRUE, items |-> [opened EXCEPT ![last] = TextLine(<<"\n">>)], diag |-> ""]
             ELSE [ok |-> FALSE, items |-> opened, diag |-> "Template last line is not '</svg>'"]

(***************************************************************************)
(* generateFENFileName / generateNumberedFileName                          *)
(***************************************************************************)
sAdmittedCharacters == <<"1", "p", "P", "2", "3", "4", "8", "R", "r", "k", "K", "5", "b", "B", "N", "n", "6", "q", "Q", "7">>

\* every character of the field is copied
copyStepEveryCharacter(sFEN, s) ==
    LET cCurrentChar == CharAt(sFEN, s.nInputPos)
    IN  IF cCurrentChar # NUL /\ cCurrentChar # " "
        THEN [nInputPos |-> s.nInputPos + 1, out |-> Append(s.out, cCurrentChar)]
        ELSE s

\* one turn of the loop of lines 176-181
copyStep(sFEN, s) ==
    LET cCurrentChar == CharAt(sFEN, s.nInputPos)
    IN  IF cCurrentChar # NUL /\ cCurrentChar # " "
        THEN [nInputPos |-> s.nInputPos + 1,
              out |-> IF StrChr(sAdmittedCharacters, cCurrentChar) # 0 THEN Append(s.out, cCurrentChar) ELSE s.out]
        ELSE s

RECURSIVE copyAdmitted(_, _, _)
\* the loop of lines 176-181
copyAdmitted(sFEN, n, s) ==
    IF n <= 1
    THEN copyStep(sFEN, s)
    ELSE CHOOSE r \in {copyAdmitted(sFEN, n - (n \div 2), m) : m \in {copyAdmitted(sFEN, n \div 2, s)}} : TRUE

generateFENFileName(sFEN) ==
    LET r == copyAdmitted(sFEN, Len(sFEN) + 1, [nInputPos |-> 0, out |-> <<>>])
        nInputPos == SkipBlanks(sFEN, Len(sFEN) + 1, r.nInputPos)
        side == IF CharAt(sFEN, nInputPos) # NUL /\ CharAt(sFEN, nInputPos) = "b" THEN "b" ELSE "w"
    IN  r.out \o <<side, ".", "s", "v", "g">>

\* malloc(strlen(sFEN) * sizeof(char) + 1 + 4), line 165: the bytes of
\* sReturnValue
fenFileNameAllocated(sFEN) == Len(sFEN) * 1 + 1 + 4

\* nOutputPos when generateFENFileName returns: the bytes stored at
\* sReturnValue[0 .. nOutputPos - 1], the name and its '\0' (lines 178-200)
fenFileNameOutputPos(sFEN) == Len(generateFENFileName(sFEN)) + 1

\* what a store past the end of a block of malloc can do: land in the
\* unused tail of the chunk, or in the bookkeeping of the allocator
HeapWriteOutcomes == {"intact", "corrupted"}

DecimalDigits == <<"0", "1", "2", "3", "4", "5", "6", "7", "8", "9">>

RECURSIVE Decimal(_)
\* what %d prints for n >= 0
Decimal(n) == IF n < 10 THEN <<DecimalDigits[n + 1]>> ELSE Append(Decimal(n \div 10), DecimalDigits[(n % 10) + 1])

RECURSIVE ZeroPad(_, _)
\* what %05d adds: zeros on the left up to the width
ZeroPad(digits, width) == IF Len(digits) >= width THEN digits ELSE ZeroPad(<<"0">> \o digits, width)

\* snprintf(sReturnValue, 13, "dia%05d.svg", nDiagramNumber): at most 12 characters
generateNumberedFileName(nDiagramNumber) ==
    LET full == <<"d", "i", "a">> \o ZeroPad(Decimal(nDiagramNumber), 5) \o <<".", "s", "v", "g">>
    IN  SubSeq(full, 1, IF Len(full) < 12 THEN Len(full) ELSE 12)

(***************************************************************************)
(* writeListsToFile                                                        *)
(***************************************************************************)
\* the pieces written under the board
documentLinesPiecesFirst(lstTemplate, lstEmptyBoard, lstPieces) ==
    lstTemplate \o lstPieces \o lstEmptyBoard \o <<ClosingLine>>

\* the lines written between fopen and fclose (lines 702-730)
documentLines(lstTemplate, lstEmptyBoard, lstPieces) ==
    lstTemplate \o lstEmptyBoard \o lstPieces \o <<ClosingLine>>

\* the file system after writeListsToFile; bOpened is whether fopen(.., "w")
\* succeeded.  A file is [name, closed, lines]; "w" replaces a file of the
\* same name.
writeListsToFile(files, sOutputFile, bOpened, lstTemplate, lstEmptyBoard, lstPieces) ==
    IF ~bOpened
    THEN files
    ELSE {f \in files : f.name # sOutputFile}
         \cup {[name |-> sOutputFile, closed |-> TRUE,
                lines |-> documentLines(lstTemplate, lstEmptyBoard, lstPieces)]}

\* a file opened with "w" and never closed because the process died: it
\* exists, and what reached it of the buffered lines is not determined
truncatedFile(files, sOutputFile) ==
    {f \in files : f.name # sOutputFile} \cup {[name |-> sOutputFile, closed |-> FALSE, lines |-> <<>>]}

(***************************************************************************)
(* The inputs of a run.                                                    *)
(***************************************************************************)
\* 4k3/8/8/8/8/8/8/4K3 w - - 0 1
FenKings == <<"4", "k", "3", "/", "8", "/", "8", "/", "8", "/", "8", "/", "8", "/", "8", "/", "4", "K", "3", " ", "w", " ", "-", " ", "-", " ", "0", " ", "1">>

\* 4k3/8/8/8/8/8/8/4K3 b - - 0 1
FenKingsBlack == <<"4", "k", "3", "/", "8", "/", "8", "/", "8", "/", "8", "/", "8", "/", "8", "/", "4", "K", "3", " ", "b", " ", "-", " ", "-", " ", "0", " ", "1">>

\* 4k2X/8/8/8/8/8/8/4K3 w - - 0 1
FenBadChar == <<"4", "k", "2", "X", "/", "8", "/", "8", "/", "8", "/", "8", "/", "8", "/", "8", "/", "4", "K", "3", " ", "w", " ", "-", " ", "-", " ", "0", " ", "1">>

\* 8/8/8/8/8/8/8/75 w - - 0 1
FenOverflow == <<"8", "/", "8", "/", "8", "/", "8", "/", "8", "/", "8", "/", "8", "/", "7", "5", " ", "w", " ", "-", " ", "-", " ", "0", " ", "1">>

\* 8/8/8/8/8/8/8/8 w - - 0 1
FenEmptyBoard == <<"8", "/", "8", "/", "8", "/", "8", "/", "8", "/", "8", "/", "8", "/", "8", " ", "w", " ", "-", " ", "-", " ", "0", " ", "1">>

FenInputs == {FenKings, FenKingsBlack, FenBadChar, FenOverflow, FenEmptyBoard}

\* the positions that may follow the first one of a batch
LaterInputs == {FenKings, FenKingsBlack}

\* the batches of a run: 1..MaxBatch command-line operands (string mode)
Batches == {<<first>> \o rest : first \in FenInputs, rest \in UNION {[1..n -> LaterInputs] : n \in 0..(MaxBatch - 1)}}

\* the option letters of a command line that selects string mode and any of
\* the five features
FeatureLetters == <<"b", "c", "m", "r", "p">>

NormalOptions == {SelectSeq(FeatureLetters, LAMBDA c : c \in chosen) \o <<"s">> : chosen \in SUBSET Range(FeatureLetters)}

\* the command lines of the runs: [options, operands], the options in the
\* order getopt returns them; no option and no operand stands for argc = 1
CommandLines ==
    [options : NormalOptions, operands : Batches]
    \cup { [options |-> <<>>, operands |-> <<>>],
           [options |-> <<"b", "s">>, operands |-> <<>>],
           [options |-> <<"f", "s">>, operands |-> <<FenKings>>],
           [options |-> <<"s", "f">>, operands |-> <<FenKings>>],
           [options |-> <<"x", "s">>, operands |-> <<FenKings>>],
           [options |-> <<"s", "c", "x">>, operands |-> <<FenKingsBlack>>],
           [options |-> <<"h">>, operands |-> <<FenKings>>] }

TplOpen == <<"<", "s", "v", "g", " ", "x", "\n">>

TplDefs == <<"<", "d", "e", "f", "s", "/", ">", "\n">>

TplClose == <<"<", "/", "s", "v", "g", ">", "\n">>

\* a closing line with something after the marker
TplCloseMore == <<"<", "/", "s", "v", "g", ">", " ", "\n">>

\* the contents template.svg may have
TemplateFiles ==
    { NoFile,
      File(<<>>),
      File(<<TplOpen, TplDefs, TplClose>>),
      File(<<TplDefs, TplClose>>),
      File(<<TplOpen, TplDefs>>),
      File(<<TplOpen>>),
      File(<<TplOpen, TplDefs, TplCloseMore>>) }

(***************************************************************************)
(* State.                                                                  *)
(***************************************************************************)
VARIABLES
    pc,                     \* where main is
    exitStatus,             \* how the process ended ("running" before)
    stdout,                 \* the diagnostics that reached standard output
    bBorder, bCoordinates, bMoveIndicator, bRotateBoard, bPositionAsFileName,
    enuInputMode,
    envTemplate,            \* the file template.svg
    envOptions,             \* the option letters of the command line
    envOperands,            \* the non-option arguments: the FEN strings
    lstTemplate,            \* the items of lstTemplate
    lstNormalEmptyBoard, lstReversedEmptyBoard,
    lstFEN,                 \* the items of lstFEN
    itmFEN,                 \* index into lstFEN of the current item, 0 for NULL
    nDiagramNumber,
    files,                  \* the files of the working directory
    history,                \* what happened to each position processed
    call                    \* the call of a library function under check

runVars == <<pc, exitStatus, stdout, bBorder, bCoordinates, bMoveIndicator, bRotateBoard, bPositionAsFileName, enuInputMode, envTemplate, envOptions, envOperands, lstTemplate, lstNormalEmptyBoard, lstReversedEmptyBoard, lstFEN, itmFEN, nDiagramNumber, files, history>>

vars == <<runVars, call>>

NoCall == [op |-> "none"]

flagVars == <<bBorder, bCoordinates, bMoveIndicator, bRotateBoard, bPositionAsFileName, enuInputMode>>

envVars == <<envTemplate, envOptions, envOperands>>

listVars == <<lstTemplate, lstNormalEmptyBoard, lstReversedEmptyBoard, lstFEN>>

(***************************************************************************)
(* main                                                                    *)
(***************************************************************************)
Init ==
    /\ pc = "start"
    /\ exitStatus = "running"
    /\ stdout = <<>>
    /\ bBorder = FALSE
    /\ bCoordinates = FALSE
    /\ bMoveIndicator = FALSE
    /\ bRotateBoard = FALSE
    /\ bPositionAsFileName = FALSE
    /\ enuInputMode = "UNKNOWN_MODE"
    /\ envTemplate \in TemplateFiles
    /\ \E line \in CommandLines : envOptions = line.options /\ envOperands = line.operands
    /\ lstTemplate = <<>>
    /\ lstNormalEmptyBoard = <<>>
    /\ lstReversedEmptyBoard = <<>>
    /\ lstFEN = <<>>
    /\ itmFEN = 0
    /\ nDiagramNumber = 0
    /\ files = {}
    /\ history = <<>>
    /\ call = NoCall

\* one turn of the getopt loop (lines 824-900) for the option letter c; s
\* holds the flags, the input mode and, once main has left, its exit status
optionStep(s, c) ==
    IF s.exit # "none" THEN s
    ELSE CASE c = "h" -> [s EXCEPT !.exit = "EXIT_SUCCESS"]
           [] c = "b" -> [s EXCEPT !.bBorder = TRUE]
           [] c = "c" -> [s EXCEPT !.bCoordinates = TRUE]
           [] c = "m" -> [s EXCEPT !.bMoveIndicator = TRUE]
           [] c = "r" -> [s EXCEPT !.bRotateBoard = TRUE]
           [] c = "p" -> [s EXCEPT !.bPositionAsFileName = TRUE]
           [] c = "f" -> IF s.enuInputMode \notin {"UNKNOWN_MODE", "FILE_MODE"}
                         THEN [s EXCEPT !.exit = "EXIT_FAILURE"]
                         ELSE [s EXCEPT !.enuInputMode = "FILE_MODE"]
           [] c = "s" -> IF s.enuInputMode \notin {"UNKNOWN_MODE", "STRING_MODE"}
                         THEN [s EXCEPT !.exit = "EXIT_FAILURE"]
                         ELSE [s EXCEPT !.enuInputMode = "STRING_MODE"]
           \* getopt returns '?' for a letter that is not in "hbcmprfs":
           \* case '?': break (lines 896-897)
           [] OTHER -> s

RECURSIVE getoptLoop(_, _, _)
\* while ((c = getopt(argc, argv, "hbcmprfs")) != -1), lines 824-900
getoptLoop(options, i, s) ==
    IF i > Len(options) THEN s ELSE getoptLoop(options, i + 1, optionStep(s, options[i]))

\* main, lines 815-919: [exit |-> "none"] when main goes on to the template
parseArguments(options, operands) ==
    LET s0 == [bBorder |-> FALSE, bCoordinates |-> FALSE, bMoveIndicator |-> FALSE, bRotateBoard |-> FALSE,
               bPositionAsFileName |-> FALSE, enuInputMode |-> "UNKNOWN_MODE", exit |-> "none"]
        s == getoptLoop(options, 1, s0)
    IN  IF options = <<>> /\ operands = <<>>
        THEN [s0 EXCEPT !.exit = "EXIT_FAILURE"]
        ELSE IF s.exit # "none"
        THEN s
        ELSE IF operands = <<>>
        THEN [s EXCEPT !.exit = "EXIT_FAILURE",
                       !.enuInputMode = IF @ = "UNKNOWN_MODE" THEN "FILE_MODE" ELSE @]
        ELSE [s EXCEPT !.enuInputMode = IF @ = "UNKNOWN_MODE" THEN "FILE_MODE" ELSE @]

\* main, lines 815-919: the options set the flags; the operands are kept
ParseArguments ==
    /\ pc = "start"
    /\ \E s \in {parseArguments(envOptions, envOperands)} :
           /\ bBorder' = s.bBorder
           /\ bCoordinates' = s.bCoordinates
           /\ bMoveIndicator' = s.bMoveIndicator
           /\ bRotateBoard' = s.bRotateBoard
           /\ bPositionAsFileName' = s.bPositionAsFileName
           /\ enuInputMode' = s.enuInputMode
           /\ pc' = IF s.exit = "none" THEN "template" ELSE "done"
           /\ exitStatus' = IF s.exit = "none" THEN exitStatus ELSE s.exit
           /\ stdout' = IF s.exit = "EXIT_SUCCESS" THEN Append(stdout, "FEN2SVG v0.3") ELSE stdout
    /\ UNCHANGED <<envVars, listVars, itmFEN, nDiagramNumber, files, history, call>>

\* the outcomes of reading through a NULL LinkedList* (undefined behaviour):
\* the access traps, or it reads the bytes at address 0 as a list with
\* First = Last = NULL
NullReadOutcomes == {"trap", "zero"}

\* main, lines 921-926: readTemplate, then addLengthsToTemplate(*lstTemplate)
ReadTemplate ==
    /\ pc = "template"
    /\ LET t == readTemplate(envTemplate)
           a == addLengthsToTemplate(t.items, bBorder, bCoordinates, bMoveIndicator)
           out == IF t.null THEN Append(stdout, "Error: cannot open input file") ELSE stdout
       IN  \E outcome \in (IF t.null THEN NullReadOutcomes ELSE {"list"}) :
               IF outcome = "trap"
               THEN \* the message of readTemplate has no '\n': it is still in
                    \* the buffer of stdout when the process is killed
                    /\ pc' = "done"
                    /\ exitStatus' = "SIGSEGV"
                    /\ UNCHANGED <<stdout, lstTemplate>>
               ELSE IF a.ok
               THEN /\ pc' = "boards"
                    /\ lstTemplate' = a.items
                    /\ UNCHANGED <<exitStatus, stdout>>
               ELSE /\ pc' = "done"
                    /\ exitStatus' = "EXIT_FAILURE"
                    /\ stdout' = Append(out, a.diag)
                    /\ UNCHANGED lstTemplate
    /\ UNCHANGED <<flagVars, envVars, lstNormalEmptyBoard, lstReversedEmptyBoard, lstFEN, itmFEN, nDiagramNumber, files, history, call>>

\* main, lines 927-931
GenerateBoards ==
    /\ pc = "boards"
    /\ lstNormalEmptyBoard' = generateEmptyBoard(bBorder, bCoordinates, bMoveIndicator, TRUE)
    /\ lstReversedEmptyBoard' = generateEmptyBoard(bBorder, bCoordinates, bMoveIndicator, FALSE)
    /\ pc' = "input"
    /\ UNCHANGED <<exitStatus, stdout, flagVars, envVars, lstTemplate, lstFEN, itmFEN, nDiagramNumber, files, history, call>>

\* main, lines 933-956 (string mode), and the entry of writeDiagramsToFiles
\* (lines 755-756)
ReadInput ==
    /\ pc = "input"
    /\ enuInputMode = "STRING_MODE"
    /\ lstFEN' = envOperands
    /\ itmFEN' = IF Len(envOperands) > 0 THEN 1 ELSE 0
    /\ nDiagramNumber' = 1
    /\ pc' = "diagrams"
    /\ UNCHANGED <<exitStatus, stdout, flagVars, envVars, lstTemplate, lstNormalEmptyBoard, lstReversedEmptyBoard, files, history, call>>

\* a selection that forgets the rotation flag
useNormalEmptyBoardByColour(sFEN, bRotate) == isWhiteToPlay(sFEN)

\* the test that selects the empty board of a position (line 761)
useNormalEmptyBoard(sFEN, bRotate) == isWhiteToPlay(sFEN) \/ ~bRotate

\* what the loop of writeDiagramsToFiles does after writeListsToFile returns
\* (lines 779-786): the returned value is not looked at
afterWrite(bWritten) == "next"

\* an advance that passes over the item after the current one
nextItemButOne(itm, nItems) == IF itm + 1 < nItems THEN itm + 2 ELSE 0

\* itmFEN = itmFEN->Next (line 783): the items of a list built by
\* appendToList are numbered from 1 in the order of the list, and 0 is the
\* NULL that the Next of the last item holds
nextItem(itm, nItems) == IF itm < nItems THEN itm + 1 ELSE 0

\* one turn of the loop of writeDiagramsToFiles (lines 757-786)
WriteDiagram ==
    /\ pc = "diagrams"
    /\ itmFEN # 0
    /\ \E sFEN \in {lstFEN[itmFEN]} :
       \E lstPieces \in {createPieces(sFEN, bBorder, bCoordinates, bMoveIndicator, bRotateBoard)} :
       \E bNormal \in {useNormalEmptyBoard(sFEN, bRotateBoard)} :
       \E sFileName \in {IF bPositionAsFileName THEN generateFENFileName(sFEN) ELSE generateNumberedFileName(nDiagramNumber)} :
       \E outcome \in (IF lstPieces.null THEN NullReadOutcomes ELSE {"list"}), bOpened \in BOOLEAN :
           LET lstEmptyBoard == IF bNormal THEN lstNormalEmptyBoard ELSE lstReversedEmptyBoard
               out == IF lstPieces.null THEN Append(stdout, "ERROR: unexpected character") ELSE stdout
               event(sEnd) ==
                   [item |-> itmFEN, sFEN |-> sFEN, parsed |-> ~lstPieces.null, name |-> sFileName,
                    opened |-> bOpened, normalBoard |-> bNormal, pieces |-> lstPieces.items, end |-> sEnd]
           IN  /\ nDiagramNumber' = IF bPositionAsFileName THEN nDiagramNumber ELSE nDiagramNumber + 1
               /\ IF outcome = "trap"
                  THEN \* *lstPieces traps: before the call, or, when the call is
                       \* inlined, at the first use of lstPieces after fopen
                       /\ pc' = "done"
                       /\ exitStatus' = "SIGSEGV"
                       /\ UNCHANGED stdout
                       /\ files' = IF bOpened THEN truncatedFile(files, sFileName) ELSE files
                       /\ history' = Append(history, event("trap"))
                       /\ UNCHANGED itmFEN
                  ELSE /\ files' = writeListsToFile(files, sFileName, bOpened, lstTemplate, lstEmptyBoard, lstPieces.items)
                       /\ stdout' = IF bOpened THEN out ELSE Append(out, "Error: cannot open output file")
                       /\ history' = Append(history, event("returned"))
                       /\ IF afterWrite(bOpened) = "next"
                          THEN /\ itmFEN' = nextItem(itmFEN, Len(lstFEN))
                               /\ UNCHANGED <<pc, exitStatus>>
                          ELSE /\ pc' = "done"
                               /\ exitStatus' = "EXIT_FAILURE"
                               /\ UNCHANGED itmFEN
    /\ UNCHANGED <<flagVars, envVars, listVars, call>>

\* the loop of writeDiagramsToFiles ends (line 788) and main returns (lines 962-969)
Finish ==
    /\ pc = "diagrams"
    /\ itmFEN = 0
    /\ pc' = "done"
    /\ exitStatus' = "EXIT_SUCCESS"
    /\ UNCHANGED <<stdout, flagVars, envVars, listVars, itmFEN, nDiagramNumber, files, history, call>>

Next ==
    \/ ParseArguments
    \/ ReadTemplate
    \/ GenerateBoards
    \/ ReadInput
    \/ WriteDiagram
    \/ Finish

Spec == Init /\ [][Next]_vars

\* the process keeps running: a step that can be taken is taken
SpecFair == Spec /\ WF_vars(Next)

(***************************************************************************)
(* createPieces called on its own, on generated FEN strings.               *)
(***************************************************************************)
RECURSIVE Repeat(_, _)
Repeat(s, n) == IF n = 0 THEN <<>> ELSE s \o Repeat(s, n - 1)

\* an empty rank, and the ranks with pieces, of a generated placement field
EmptyRank == <<"8", "/">>

PieceRanks == {<<"R", "n", "B", "q", "K", "p", "N", "b", "/">>, <<"r", "P", "Q", "k", "4", "/">>}

\* how many ranks the field starts with: none, or nearly a whole board
LeadCounts == {7, 8}

\* the start of a generated placement field: nothing, or empty ranks with at
\* most one rank of pieces, first or last
Leads ==
    {<<>>}
    \cup {Repeat(EmptyRank, k) : k \in LeadCounts}
    \cup {rank \o Repeat(EmptyRank, k - 1) : rank \in PieceRanks, k \in LeadCounts}
    \cup {Repeat(EmptyRank, k - 1) \o rank : rank \in PieceRanks, k \in LeadCounts}

\* the characters of the free tail of a generated placement field
TailChars == {"7", "8", "K", "X"}

Tails == UNION {[1..n -> TailChars] : n \in 0..MaxTail}

\* what may follow the placement field
Suffixes == {<<>>, <<" ", "b">>, <<" ", "w", " ", "-", " ", "-", " ", "0", " ", "1">>}

GeneratedFens == {lead \o tail \o suffix : lead \in Leads, tail \in Tails, suffix \in Suffixes}

\* strings for the functions that look at the active colour: placement
\* fields, whole or not, and what may follow them
ColourFields ==
    { <<>>,
      <<"8">>,
      <<"b">>,
      <<"K", "7">>,
      <<"X", "9", "/", "-", "0", "k">>,
      <<"1", "p", "P", "2", "3", "4", "8", "R", "r", "k", "K", "5", "b", "B", "N", "n", "6", "q", "Q", "7">>,
      <<"r", "n", "b", "q", "k", "b", "n", "r", "/", "p", "p", "p", "p", "p", "p", "p", "p", "/", "8", "/", "8", "/", "8", "/", "8", "/", "P", "P", "P", "P", "P", "P", "P", "P", "/", "R", "N", "B", "Q", "K", "B", "N", "R">> }

ColourSuffixes ==
    { <<" ">>,
      <<" ", " ", "b">>,
      <<" ", "b", "x">>,
      <<" ", "B">>,
      <<" ", "w", " ", "b">>,
      <<" ", "-", " ", "b">>,
      <<" ", " ", " ", "w", "b">>,
      <<" ", "b", " ", "K", "Q", "k", "q", " ", "-", " ", "0", " ", "1">>,
      <<" ", "b", "\n">> }

ColourInputs == {field \o suffix : field \in ColourFields, suffix \in ColourSuffixes}

PieceInputs == GeneratedFens \cup FenInputs \cup ColourInputs

\* the FEN string of a board with one king, on the square of file and rank
\* (each in 0..7; rank 0 is the first rank, the last one of the field): the
\* empty squares before it, whole ranks then the rest, the king, the colour
SquareFen(file, rank, colour) ==
    Repeat(<<"8">>, 7 - rank) \o (IF file = 0 THEN <<>> ELSE <<DigitChars[file]>>) \o <<"K", " ", colour>>

InitPieces ==
    /\ pc = "library"
    /\ exitStatus = "running"
    /\ stdout = <<>>
    /\ bBorder = FALSE
    /\ bCoordinates = FALSE
    /\ bMoveIndicator = FALSE
    /\ bRotateBoard = FALSE
    /\ bPositionAsFileName = FALSE
    /\ enuInputMode = "UNKNOWN_MODE"
    /\ envTemplate = NoFile
    /\ envOptions = <<>>
    /\ envOperands = <<>>
    /\ lstTemplate = <<>>
    /\ lstNormalEmptyBoard = <<>>
    /\ lstReversedEmptyBoard = <<>>
    /\ lstFEN = <<>>
    /\ itmFEN = 0
    /\ nDiagramNumber = 0
    /\ files = {}
    /\ history = <<>>
    /\ \/ \E sFEN \in PieceInputs : call = [op |-> "input", sFEN |-> sFEN]
       \/ \E file \in 0..7, rank \in 0..7 : call = [op |-> "square", file |-> file, rank |-> rank]

\* createPieces(sFEN, bBorder, bCoordinates, bMoveIndicator, bRotateBoard)
CallCreatePieces ==
    /\ call.op = "input"
    /\ \E border \in BOOLEAN, coordinates \in BOOLEAN, indicator \in BOOLEAN, rotate \in BOOLEAN :
           call' = [op |-> "createPieces", sFEN |-> call.sFEN,
                    bBorder |-> border, bCoordinates |-> coordinates,
                    bMoveIndicator |-> indicator, bRotateBoard |-> rotate,
                    result |-> createPieces(call.sFEN, border, coordinates, indicator, rotate)]
    /\ UNCHANGED runVars

\* isWhiteToPlay(sFEN)
CallIsWhiteToPlay ==
    /\ call.op = "input"
    /\ call' = [op |-> "isWhiteToPlay", sFEN |-> call.sFEN, result |-> isWhiteToPlay(call.sFEN)]
    /\ UNCHANGED runVars

\* generateFENFileName(sFEN)
CallGenerateFENFileName ==
    /\ call.op = "input"
    /\ \E heap \in (IF fenFileNameOutputPos(call.sFEN) > fenFileNameAllocated(call.sFEN) THEN HeapWriteOutcomes ELSE {"intact"}) :
           call' = [op |-> "generateFENFileName", sFEN |-> call.sFEN, result |-> generateFENFileName(call.sFEN),
                    nAllocated |-> fenFileNameAllocated(call.sFEN), nOutputPos |-> fenFileNameOutputPos(call.sFEN),
                    heap |-> heap]
    /\ UNCHANGED runVars

\* createPieces with the board rotated for black, for a piece on a square
\* with white to move and a piece on the opposite square with black to move,
\* and generateEmptyBoard in both orientations, in one configuration
CallSquareOrigin ==
    /\ call.op = "square"
    /\ \E border \in BOOLEAN, coordinates \in BOOLEAN, indicator \in BOOLEAN :
           call' = [op |-> "squareOrigin", file |-> call.file, rank |-> call.rank,
                    bBorder |-> border, bCoordinates |-> coordinates, bMoveIndicator |-> indicator,
                    white |-> createPieces(SquareFen(call.file, call.rank, "w"), border, coordinates, indicator, TRUE),
                    black |-> createPieces(SquareFen(7 - call.file, 7 - call.rank, "b"), border, coordinates, indicator, TRUE),
                    lstNormalEmptyBoard |-> generateEmptyBoard(border, coordinates, indicator, TRUE),
                    lstReversedEmptyBoard |-> generateEmptyBoard(border, coordinates, indicator, FALSE)]
    /\ UNCHANGED runVars

NextPieces ==
    \/ CallSquareOrigin
    \/ CallCreatePieces
    \/ CallIsWhiteToPlay
    \/ CallGenerateFENFileName

SpecPieces == InitPieces /\ [][NextPieces]_vars

(***************************************************************************)
(* readFENFile called on its own, on files of lines of several lengths.    *)
(***************************************************************************)
BUFFER_SIZE == 1024

FEN_EXCERPT_LENGTH == 75

\* the run of main stands still while a function is called on its own
IdleRun ==
    /\ pc = "library"
    /\ exitStatus = "running"
    /\ stdout = <<>>
    /\ bBorder = FALSE
    /\ bCoordinates = FALSE
    /\ bMoveIndicator = FALSE
    /\ bRotateBoard = FALSE
    /\ bPositionAsFileName = FALSE
    /\ enuInputMode = "UNKNOWN_MODE"
    /\ envTemplate = NoFile
    /\ envOptions = <<>>
    /\ envOperands = <<>>
    /\ lstTemplate = <<>>
    /\ lstNormalEmptyBoard = <<>>
    /\ lstReversedEmptyBoard = <<>>
    /\ lstFEN = <<>>
    /\ itmFEN = 0
    /\ nDiagramNumber = 0
    /\ files = {}
    /\ history = <<>>

\* a line of n characters, the '\n' that ends it not counted: the kings'
\* position, then filling characters
LineOfLength(n) == [i \in 1..n |-> IF i <= Len(FenKings) THEN FenKings[i] ELSE "-"]

\* the lengths of the lines of the FEN files: short, around the length of
\* the excerpt, and longer than the buffer of fgets
LineLengths == {0, 29, 73, 74, 75, 76, 1030}

FenFileLines == {Append(LineOfLength(n), "\n") : n \in LineLengths}

\* the FEN files: none, empty, one or two lines, the last one with or
\* without its '\n'
FenFiles ==
    {NoFile, File(<<>>)}
    \cup {File(<<l>>) : l \in FenFileLines}
    \cup {File(<<LineOfLength(n)>>) : n \in LineLengths \ {0}}
    \cup {File(<<l, m>>) : l \in FenFileLines, m \in FenFileLines}

\* fgets(sFileLine, BUFFER_SIZE, fInputFile) on the lines not yet read:
\* at most BUFFER_SIZE - 1 characters, up to and with the '\n'
fgets(unread) ==
    IF unread = <<>>
    THEN [null |-> TRUE, sFileLine |-> <<>>, unread |-> unread]
    ELSE IF Len(unread[1]) <= BUFFER_SIZE - 1
    THEN [null |-> FALSE, sFileLine |-> unread[1], unread |-> Tail(unread)]
    ELSE [null |-> FALSE, sFileLine |-> SubSeq(unread[1], 1, BUFFER_SIZE - 1),
          unread |-> <<SubSeq(unread[1], BUFFER_SIZE, Len(unread[1]))>> \o Tail(unread)]

\* the indexes strncpy(dest, src, n) writes: the characters of src, then
\* '\0' up to n bytes in all
strncpyWrites(src, n) == 0..(n - 1)

\* the n bytes of dest after strncpy(dest, src, n), from index 0
strncpy(src, n) == [i \in 0..(n - 1) |-> CharAt(src, i)]

\* the index of sFENExcerpt[FEN_EXCERPT_LENGTH] = '\0' (line 391)
terminatorIndex == FEN_EXCERPT_LENGTH

\* what a store one element past the end of a local array can do: land in
\* the padding or the neighbour of the array, or be trapped by the build
OutOfBoundsWriteOutcomes == {"stored", "trap"}

\* the string appendToList copies from the excerpt: the characters before
\* the first '\0', the one at nTerminator included in the search
excerptString(buffer, nTerminator) ==
    LET ends == {i \in DOMAIN buffer : buffer[i] = NUL} \cup {nTerminator}
        nEnd == CHOOSE i \in ends : \A j \in ends : i <= j
    IN  [i \in 1..nEnd |-> buffer[i - 1]]

InitFile ==
    /\ IdleRun
    /\ \E file \in FenFiles : call = [op |-> "file", file |-> file]

\* readFENFile, lines 380-384: fopen
OpenFENFile ==
    /\ call.op = "file"
    /\ call' = IF call.file.exists
               THEN [op |-> "readFENFile", file |-> call.file, unread |-> call.file.lines, lstFENString |-> <<>>,
                     writes |-> {}, end |-> "reading", printed |-> <<>>]
               ELSE [op |-> "readFENFile", file |-> call.file, unread |-> <<>>, lstFENString |-> <<>>,
                     writes |-> {}, end |-> "returned false", printed |-> <<"Error: cannot open input file">>]
    /\ UNCHANGED runVars

\* one turn of the loop of lines 389-393
ReadFENLine ==
    /\ call.op = "readFENFile"
    /\ call.end = "reading"
    /\ \E r \in {fgets(call.unread)} :
           /\ ~r.null
           /\ \E outcome \in (IF terminatorIndex >= FEN_EXCERPT_LENGTH THEN OutOfBoundsWriteOutcomes ELSE {"stored"}) :
                  call' = [call EXCEPT
                              !.unread = r.unread,
                              !.writes = @ \cup strncpyWrites(r.sFileLine, FEN_EXCERPT_LENGTH) \cup {terminatorIndex},
                              !.lstFENString = IF outcome = "trap" THEN @
                                               ELSE Append(@, excerptString(strncpy(r.sFileLine, FEN_EXCERPT_LENGTH), terminatorIndex)),
                              !.end = IF outcome = "trap" THEN "trap" ELSE @]
    /\ UNCHANGED runVars

\* lines 389 and 395-400: fgets returns NULL, the file is closed; fclose
\* returns 0 when it succeeds, and then readFENFile returns false
CloseFENFile ==
    /\ call.op = "readFENFile"
    /\ call.end = "reading"
    /\ fgets(call.unread).null
    /\ \E nClose \in {0, -1} :
           call' = [call EXCEPT !.end = IF nClose = 0 THEN "returned false" ELSE "returned true"]
    /\ UNCHANGED runVars

NextFile ==
    \/ OpenFENFile
    \/ ReadFENLine
    \/ CloseFENFile

SpecFile == InitFile /\ [][NextFile]_vars

(***************************************************************************)
(* linkedlist.c: createEmptyList, appendToList and modifyItemValue called  *)
(* on their own.  The items malloc returns are numbered from 1 in the      *)
(* order of their allocation; 0 is NULL.  A list is [First, Last] with the *)
(* items of the heap, each [Value, Next].                                  *)
(***************************************************************************)
MaxCalls == 4

NULL == 0

\* the strings given to appendToList and modifyItemValue
ListValues == {<<"a">>, <<"b", "c">>}

\* createEmptyList, lines 33-46
createEmptyList == [First |-> NULL, Last |-> NULL, items |-> <<>>]

\* an append that leaves Last where it was once the list has an item
appendToListKeepsLast(lstList, sValue) ==
    LET itmNew == Len(lstList.items) + 1
        created == Append(lstList.items, [Value |-> sValue, Next |-> NULL])
    IN  IF lstList.First = NULL
        THEN [First |-> itmNew, Last |-> itmNew, items |-> created]
        ELSE [First |-> lstList.First, Last |-> lstList.Last,
              items |-> [created EXCEPT ![lstList.Last].Next = itmNew]]

\* appendToList, lines 50-77: the value is copied into a new item, which
\* the First of an empty list, or else the Next of the last item, points to
appendToList(lstList, sValue) ==
    LET itmNew == Len(lstList.items) + 1
        created == Append(lstList.items, [Value |-> sValue, Next |-> NULL])
    IN  IF lstList.First = NULL
        THEN [First |-> itmNew, Last |-> itmNew, items |-> created]
        ELSE [First |-> lstList.First, Last |-> itmNew,
              items |-> [created EXCEPT ![lstList.Last].Next = itmNew]]

\* modifyItemValue, lines 86-96, for an item that is not NULL: the item
\* gets a copy of the value
modifyItemValue(lstList, itmCurrent, sValue) ==
    [lstList EXCEPT !.items[itmCurrent].Value = sValue]

InitList ==
    /\ IdleRun
    /\ call = [op |-> "list", lstList |-> createEmptyList, log |-> <<>>, exit |-> "none"]

\* appendToList(lstList, sValue)
CallAppendToList ==
    /\ call.op = "list"
    /\ call.exit = "none"
    /\ Len(call.log) < MaxCalls
    /\ \E sValue \in ListValues :
           call' = [call EXCEPT !.lstList = appendToList(@, sValue),
                                !.log = Append(@, [op |-> "appendToList", sValue |-> sValue])]
    /\ UNCHANGED runVars

\* modifyItemValue(itmCurrent, sValue) for an item of the list or NULL;
\* lines 82-84: exit(EXIT_FAILURE) for NULL
CallModifyItemValue ==
    /\ call.op = "list"
    /\ call.exit = "none"
    /\ Len(call.log) < MaxCalls
    /\ \E itmCurrent \in {NULL} \cup DOMAIN call.lstList.items, sValue \in ListValues :
           call' = IF itmCurrent = NULL
                   THEN [call EXCEPT !.exit = "EXIT_FAILURE",
                                     !.log = Append(@, [op |-> "modifyItemValue", itmCurrent |-> NULL, sValue |-> sValue])]
                   ELSE [call EXCEPT !.lstList = modifyItemValue(@, itmCurrent, sValue),
                                     !.log = Append(@, [op |-> "modifyItemValue", itmCurrent |-> itmCurrent, sValue |-> sValue])]
    /\ UNCHANGED runVars

NextList ==
    \/ CallAppendToList
    \/ CallModifyItemValue

SpecList == InitList /\ [][NextList]_vars

(***************************************************************************)
(* The vocabulary of the properties: what a FEN string says, stated        *)
(* independently of the code above.                                        *)
(***************************************************************************)
WhitePieceLetters == {"K", "Q", "R", "B", "N", "P"}

BlackPieceLetters == {"k", "q", "r", "b", "n", "p"}

PieceLetters == WhitePieceLetters \cup BlackPieceLetters

EmptyRunDigits == [c \in {"1", "2", "3", "4", "5", "6", "7", "8"} |-> CASE c = "1" -> 1 [] c = "2" -> 2 [] c = "3" -> 3 [] c = "4" -> 4 [] c = "5" -> 5 [] c = "6" -> 6 [] c = "7" -> 7 [] c = "8" -> 8]

\* the placement field: the characters before the first space
FieldLength(sFEN) ==
    LET blanks == {i \in 1..Len(sFEN) : sFEN[i] = " "}
    IN  IF blanks = {} THEN Len(sFEN) ELSE (CHOOSE i \in blanks : \A j \in blanks : i <= j) - 1

PlacementField(sFEN) == SubSeq(sFEN, 1, FieldLength(sFEN))

\* the squares one character accounts for
SquaresOf(c) == IF c \in DOMAIN EmptyRunDigits THEN EmptyRunDigits[c] ELSE IF c \in PieceLetters THEN 1 ELSE 0

\* the square cursor after each character of the field: cursor[i] is the
\* number of squares the first i characters account for
RECURSIVE RunningSquares(_, _, _, _)
RunningSquares(field, lo, hi, base) ==
    IF lo > hi THEN <<>>
    ELSE IF lo = hi THEN <<base + SquaresOf(field[lo])>>
    ELSE LET mid == (lo + hi) \div 2
             left == RunningSquares(field, lo, mid, base)
         IN  left \o RunningSquares(field, mid + 1, hi, left[Len(left)])

Cursor(field) ==
    LET sums == RunningSquares(field, 1, Len(field), 0)
    IN  [i \in 0..Len(field) |-> IF i = 0 THEN 0 ELSE sums[i]]

Recognized(c) == c \in DOMAIN EmptyRunDigits \/ c \in PieceLetters \/ c = "/"

\* an unrecognized character is met before 64 squares are filled
Malformed(sFEN) ==
    LET field == PlacementField(sFEN)
        cursor == Cursor(field)
    IN  \E i \in 1..Len(field) : ~Recognized(field[i]) /\ cursor[i - 1] < 64

\* the digits and letters of the field account for more than 64 squares
Overflows(sFEN) ==
    LET field == PlacementField(sFEN)
    IN  (\A i \in 1..Len(field) : Recognized(field[i])) /\ Cursor(field)[Len(field)] > 64

\* only recognized characters, and exactly 64 squares
WellFormed(sFEN) ==
    LET field == PlacementField(sFEN)
    IN  (\A i \in 1..Len(field) : Recognized(field[i])) /\ Cursor(field)[Len(field)] = 64

\* the active colour: the first token after the placement field starts with 'b'
BlackToMove(sFEN) ==
    LET after == {i \in (Len(PlacementField(sFEN)) + 1)..Len(sFEN) : sFEN[i] # " "}
    IN  after # {} /\ sFEN[CHOOSE i \in after : \A j \in after : i <= j] = "b"

\* the events of the history that are about the i-th position of the batch
EventsOf(i) == {k \in 1..Len(history) : history[k].item = i}

\* a file was created for the i-th position
FileCreatedFor(i) == \E k \in EventsOf(i) : history[k].opened

\* an output document was written to the end for the i-th position
DocumentWrittenFor(i) == \E k \in EventsOf(i) : history[k].opened /\ history[k].end = "returned"

\* writeListsToFile was called for the k-th event and could not open the file
OpenFailed(k) == history[k].end = "returned" /\ ~history[k].opened

(***************************************************************************)
(* C1: when a position of the batch has a malformed placement field, no    *)
(* file is written for it, every other position whose file can be opened   *)
(* still gets its document, and the run ends normally.                     *)
(***************************************************************************)
C1_MalformedPositionSkipped ==
    (pc = "done" /\ lstFEN # <<>> /\ (\A k \in 1..Len(history) : history[k].parsed => history[k].opened))
    => /\ exitStatus = "EXIT_SUCCESS"
       /\ \A i \in 1..Len(lstFEN) : Malformed(lstFEN[i]) => ~FileCreatedFor(i)
       /\ \A i \in 1..Len(lstFEN) : ~Malformed(lstFEN[i]) => DocumentWrittenFor(i)

(***************************************************************************)
(* C2: when writeListsToFile cannot open the file of a position, the run   *)
(* halts: no later position is processed and main ends with a non-zero     *)
(* exit status.                                                            *)
(***************************************************************************)
C2_OpenFailureHaltsRun ==
    \A k \in 1..Len(history) :
        OpenFailed(k) => /\ k = Len(history)
                         /\ (pc = "done" => exitStatus # "EXIT_SUCCESS")

(***************************************************************************)
(* C3: when template.svg cannot be opened, holds no line, or has a first   *)
(* line that does not begin with "<svg", main reports the error and        *)
(* returns EXIT_FAILURE, no diagram is written and no FEN input is read.   *)
(***************************************************************************)
TemplateUnusable(file) ==
    \/ ~file.exists
    \/ file.lines = <<>>
    \/ SubSeq(file.lines[1], 1, 4) # <<"<", "s", "v", "g">>

C3_UnusableTemplateIsReported ==
    (TemplateUnusable(envTemplate) /\ pc \notin {"start", "template"} /\ parseArguments(envOptions, envOperands).exit = "none")
    => /\ pc = "done"
       /\ exitStatus = "EXIT_FAILURE"
       /\ stdout # <<>>
       /\ files = {}
       /\ lstFEN = <<>>

(***************************************************************************)
(* C4: createPieces reports a parse failure for every placement field      *)
(* whose digits and piece letters account for more than 64 squares, and    *)
(* no diagram is written for such a field.                                 *)
(***************************************************************************)
C4_OverflowIsParseFailure ==
    \A k \in 1..Len(history) :
        Overflows(history[k].sFEN) => ~history[k].parsed /\ ~history[k].opened

KindName == [c \in PieceLetters |-> CASE c \in {"K", "k"} -> "king" [] c \in {"Q", "q"} -> "queen" [] c \in {"R", "r"} -> "rook" [] c \in {"B", "b"} -> "bishop" [] c \in {"N", "n"} -> "knight" [] c \in {"P", "p"} -> "pawn"]

\* the glyph of a piece letter: its colour, then its kind
GlyphName == [c \in PieceLetters |-> (IF c \in WhitePieceLetters THEN "white" ELSE "black") \o KindName[c]]

\* the pixel origin of the board area: right of the rank labels, inside the border
BoardOriginX(border, coordinates) == (IF coordinates THEN 48 ELSE 0) + (IF border THEN 2 ELSE 0)

BoardOriginY(border) == IF border THEN 2 ELSE 0

\* the piece instructions of a list: everything but the move indicator
PieceLinesOf(items) == SelectSeq(items, LAMBDA l : l.tag = "use")

\* the indexes of the piece letters met while fewer than 64 squares are filled
PieceIndexes(field, cursor) == SelectSeq([i \in 1..Len(field) |-> i], LAMBDA i : field[i] \in PieceLetters /\ cursor[i - 1] < 64)

\* where each of these letters belongs: the letter met at cursor n stands on
\* column n mod 8 and row n div 8 seen from white's side, and on the
\* opposite column and row seen from black's side
ExpectedPieces(sFEN, whiteAtBottom, border, coordinates) ==
    LET field == PlacementField(sFEN)
    IN  CHOOSE lines \in { LET cursor == Cursor(field)
                               idx == PieceIndexes(field, cursor)
                           IN  [j \in 1..Len(idx) |->
                                  LET n == cursor[idx[j] - 1]
                                      column == IF whiteAtBottom THEN n % 8 ELSE 7 - (n % 8)
                                      row == IF whiteAtBottom THEN n \div 8 ELSE 7 - (n \div 8)
                                  IN  [tag |-> "use", href |-> GlyphName[field[idx[j]]],
                                       x |-> BoardOriginX(border, coordinates) + 72 * column,
                                       y |-> BoardOriginY(border) + 72 * row]] } : TRUE

\* createPieces has been called and has returned
Called == call.op = "createPieces"

(***************************************************************************)
(* C5 (as stated): createPieces returns a piece list only if at least 64   *)
(* squares were accounted for; a field that stops before, or meets an      *)
(* unrecognized character before, is a parse failure.                      *)
(***************************************************************************)
C5_ListOnlyForSixtyFourSquares ==
    Called =>
        LET field == PlacementField(call.sFEN)
        IN  /\ ~call.result.null => Cursor(field)[Len(field)] >= 64
            /\ Malformed(call.sFEN) => call.result.null

(***************************************************************************)
(* C5 (amended): createPieces fails exactly when the placement field meets *)
(* an unrecognized character before 64 squares are filled; a field that    *)
(* stops before 64 squares are filled is accepted and yields the pieces    *)
(* met so far.                                                             *)
(***************************************************************************)
C5_FailsExactlyOnUnrecognizedCharacter ==
    Called =>
        /\ call.result.null <=> Malformed(call.sFEN)
        /\ call.result.null => call.result.items = <<>>
        /\ ~call.result.null =>
               PieceLinesOf(call.result.items)
                   = ExpectedPieces(call.sFEN, ~(call.bRotateBoard /\ BlackToMove(call.sFEN)), call.bBorder, call.bCoordinates)

\* a field of recognized characters that stops short of 64 squares was accepted
C5_Witness ==
    /\ Called
    /\ ~Malformed(call.sFEN)
    /\ Cursor(PlacementField(call.sFEN))[Len(PlacementField(call.sFEN))] \in 1..63
    /\ ~call.result.null
    /\ Len(call.result.items) >= 1

(***************************************************************************)
(* C6: for a placement field of digits, piece letters and '/' only that    *)
(* accounts for exactly 64 squares, createPieces succeeds and emits one    *)
(* instruction per piece letter; with white at the bottom the letter met   *)
(* at cursor n is drawn with the glyph of its colour and kind at column    *)
(* n mod 8 and row n div 8.                                                *)
(***************************************************************************)
C6_WellFormedFieldIsDrawn ==
    (Called /\ WellFormed(call.sFEN)) =>
        LET field == PlacementField(call.sFEN)
            pieces == PieceLinesOf(call.result.items)
        IN  /\ ~call.result.null
            /\ Len(pieces) = Cardinality({i \in 1..Len(field) : field[i] \in PieceLetters})
            /\ ~(call.bRotateBoard /\ BlackToMove(call.sFEN))
                   => pieces = ExpectedPieces(call.sFEN, TRUE, call.bBorder, call.bCoordinates)

\* a well-formed field with several pieces was drawn with white at the bottom
C6_Witness ==
    /\ Called
    /\ WellFormed(call.sFEN)
    /\ ~(call.bRotateBoard /\ BlackToMove(call.sFEN))
    /\ call.bBorder /\ call.bCoordinates
    /\ Len(PieceLinesOf(call.result.items)) >= 8

\* the rank labels of a board layer from the top, the file labels from the left
RankLabelsOf(board) == SelectSeq(board, LAMBDA l : l.tag = "coordinate" /\ l.href \in DOMAIN EmptyRunDigits)

FileLabelsOf(board) == SelectSeq(board, LAMBDA l : l.tag = "coordinate" /\ l.href \notin DOMAIN EmptyRunDigits)

\* the labels beside the row (under the column) of a pixel position: those
\* less than half a square away from it
RankLabelBeside(board, y) == {l.href : l \in {m \in Range(RankLabelsOf(board)) : m.y - 36 < y /\ y - 36 < m.y}}

FileLabelUnder(board, x) == {l.href : l \in {m \in Range(FileLabelsOf(board)) : m.x - 36 < x /\ x - 36 < m.x}}

\* the orientation a board layer shows: rank 8 is the topmost rank label
ShowsWhiteAtBottom(board) ==
    LET ranks == RankLabelsOf(board)
    IN  \E i \in 1..Len(ranks) : ranks[i].href = "8" /\ \A j \in 1..Len(ranks) : ranks[i].y <= ranks[j].y

\* the lines of a document between the definitions layer and the pieces
BoardLayerOf(f, nPieces) == SubSeq(f.lines, Len(lstTemplate) + 1, Len(f.lines) - nPieces - 1)

(***************************************************************************)
(* C7: the empty-board layer written for a position and the placement of   *)
(* its pieces use the same orientation, which is black-at-bottom exactly   *)
(* when board rotation is enabled and black is to move.                    *)
(***************************************************************************)
C7_OneOrientationPerPosition ==
    \A k \in 1..Len(history) :
        LET e == history[k]
            whiteAtBottom == ~(bRotateBoard /\ BlackToMove(e.sFEN))
        IN  /\ e.normalBoard = whiteAtBottom
            /\ e.parsed => PieceLinesOf(e.pieces) = ExpectedPieces(e.sFEN, whiteAtBottom, bBorder, bCoordinates)
            /\ (k = Len(history) /\ e.opened /\ e.end = "returned")
                   => \E f \in files :
                          /\ f.name = e.name
                          /\ bCoordinates => (ShowsWhiteAtBottom(BoardLayerOf(f, Len(e.pieces))) <=> whiteAtBottom)

\* a position with black to move was written with the board rotated
C7_Witness ==
    /\ bRotateBoard /\ bCoordinates
    /\ \E k \in 1..Len(history) :
           /\ BlackToMove(history[k].sFEN)
           /\ history[k].parsed /\ history[k].opened /\ history[k].end = "returned"
           /\ ~history[k].normalBoard
           /\ Len(PieceLinesOf(history[k].pieces)) = 2

(***************************************************************************)
(* C8: createPieces emits the piece instructions in the scan order of the  *)
(* field in both orientations; with the move indicator enabled it appends  *)
(* exactly one move-indicator instruction, last, filled with the active    *)
(* colour; with it disabled it emits none.                                 *)
(***************************************************************************)
C8_ScanOrderThenIndicator ==
    (Called /\ ~call.result.null) =>
        LET field == PlacementField(call.sFEN)
            items == call.result.items
            pieces == PieceLinesOf(items)
            idx == PieceIndexes(field, Cursor(field))
            indicators == {i \in 1..Len(items) : items[i].tag = "moveindicator"}
        IN  /\ [j \in 1..Len(pieces) |-> pieces[j].href] = [j \in 1..Len(idx) |-> GlyphName[field[idx[j]]]]
            /\ SubSeq(items, 1, Len(pieces)) = pieces
            /\ call.bMoveIndicator =>
                   /\ indicators = {Len(items)}
                   /\ Len(items) = Len(pieces) + 1
                   /\ items[Len(items)].fill = IF BlackToMove(call.sFEN) THEN "black" ELSE "white"
            /\ ~call.bMoveIndicator => indicators = {}
            /\ (call.sFEN = FenKings /\ call.bMoveIndicator) =>
                   /\ Len(items) = 3
                   /\ <<items[1].href, items[2].href>> = <<"blackking", "whiteking">>
                   /\ items[3].fill = "white"

\* the two kings and the white move indicator of 4k3/8/8/8/8/8/8/4K3 w - - 0 1
C8_Witness ==
    /\ Called
    /\ call.sFEN = FenKings
    /\ call.bMoveIndicator
    /\ ~call.result.null
    /\ Len(call.result.items) = 3

(***************************************************************************)
(* C9: every output document consists, in this order, of the lines of the  *)
(* adjusted definitions layer, the lines of the selected empty-board       *)
(* layer, the piece lines of the position, and one closing "</svg>" line,  *)
(* which is its last line.                                                 *)
(***************************************************************************)
C9_DocumentLayout ==
    \A f \in files :
        f.closed =>
            \E k \in 1..Len(history) :
                LET e == history[k]
                    board == IF e.normalBoard THEN lstNormalEmptyBoard ELSE lstReversedEmptyBoard
                    n == Len(lstTemplate) + Len(board) + Len(e.pieces)
                IN  /\ e.name = f.name /\ e.opened /\ e.end = "returned"
                    /\ Len(f.lines) = n + 1
                    /\ SubSeq(f.lines, 1, Len(lstTemplate)) = lstTemplate
                    /\ SubSeq(f.lines, Len(lstTemplate) + 1, Len(lstTemplate) + Len(board)) = board
                    /\ SubSeq(f.lines, Len(lstTemplate) + Len(board) + 1, n) = e.pieces
                    /\ f.lines[n + 1] = ClosingLine
                    /\ \A i \in (Len(lstTemplate) + 1)..n : f.lines[i] # ClosingLine
                    /\ lstTemplate[1].tag = "svgopen"
                    /\ Len(board) >= 64

\* a document with pieces was written to the end
C9_Witness ==
    \E f \in files :
        /\ f.closed
        /\ Len(lstTemplate) = 3
        /\ \E k \in 1..Len(history) : history[k].name = f.name /\ Len(history[k].pieces) = 3
        /\ Len(f.lines) = 3 + 64 + 1 + 16 + 3 + 1

\* the empty-board layers of every configuration and orientation
EmptyBoards == [border \in BOOLEAN, coordinates \in BOOLEAN, indicator \in BOOLEAN, whiteAtBottom \in BOOLEAN |-> generateEmptyBoard(border, coordinates, indicator, whiteAtBottom)]

(***************************************************************************)
(* C10: with coordinates enabled, in both orientations, the rank label     *)
(* beside the board row of a piece names the rank of that piece and the    *)
(* file label under its column names its file; with white at the bottom    *)
(* the ranks run from 8 down to 1 from the top and the files from a to h   *)
(* from the left, with black at the bottom from 1 up to 8 and from h to a. *)
(***************************************************************************)
C10_LabelsNameThePieces ==
    (Called /\ call.bCoordinates /\ ~call.result.null) =>
        LET field == PlacementField(call.sFEN)
            whiteAtBottom == ~(call.bRotateBoard /\ BlackToMove(call.sFEN))
            board == EmptyBoards[call.bBorder, TRUE, call.bMoveIndicator, whiteAtBottom]
            pieces == PieceLinesOf(call.result.items)
        IN  \A cursor \in {Cursor(field)} :
                LET idx == PieceIndexes(field, cursor)
                IN  /\ Len(idx) = Len(pieces)
                    /\ \A j \in 1..Len(idx) :
                           LET n == cursor[idx[j] - 1]
                           IN  /\ RankLabelBeside(board, pieces[j].y) = {DigitChars[8 - (n \div 8)]}
                               /\ FileLabelUnder(board, pieces[j].x) = {FileChars[(n % 8) + 1]}
                    /\ [i \in 1..8 |-> RankLabelsOf(board)[i].href]
                           = IF whiteAtBottom THEN <<"8", "7", "6", "5", "4", "3", "2", "1">> ELSE <<"1", "2", "3", "4", "5", "6", "7", "8">>
                    /\ [i \in 1..8 |-> FileLabelsOf(board)[i].href]
                           = IF whiteAtBottom THEN <<"a", "b", "c", "d", "e", "f", "g", "h">> ELSE <<"h", "g", "f", "e", "d", "c", "b", "a">>
                    /\ \A i \in 1..7 : RankLabelsOf(board)[i].y < RankLabelsOf(board)[i + 1].y /\ FileLabelsOf(board)[i].x < FileLabelsOf(board)[i + 1].x

\* pieces were placed on a rotated board that carries coordinates
C10_Witness ==
    /\ Called
    /\ call.bCoordinates /\ call.bRotateBoard /\ BlackToMove(call.sFEN)
    /\ ~call.result.null
    /\ Len(PieceLinesOf(call.result.items)) >= 8

\* the square instructions of an empty-board layer
SquareLinesOf(board) == {i \in 1..Len(board) : board[i].tag = "use" /\ board[i].href \in {"lightsquare", "darksquare"}}

\* the squares a checkerboard has: column x, row y is light exactly when
\* x + y is even
CheckerboardSquares(border, coordinates) ==
    {<<IF (x + y) % 2 = 0 THEN "lightsquare" ELSE "darksquare", BoardOriginX(border, coordinates) + 72 * x, BoardOriginY(border) + 72 * y>> : x \in 0..7, y \in 0..7}

\* 64 square instructions, and each square of the checkerboard is one of them
Checkerboard(board) ==
    /\ Cardinality(SquareLinesOf(board)) = 64
    /\ {<<board[i].href, board[i].x, board[i].y>> : i \in SquareLinesOf(board)} = CheckerboardSquares(bBorder, bCoordinates)

(***************************************************************************)
(* C11: generateEmptyBoard emits exactly 64 square instructions, one per   *)
(* column x and row y of 0..7, light exactly when x + y is even and dark    *)
(* otherwise, for both orientations and every feature configuration.       *)
(***************************************************************************)
C11_CheckerboardSquares ==
    (pc \in {"input", "diagrams"} \/ (pc = "done" /\ lstFEN # <<>>))
    => /\ Checkerboard(lstNormalEmptyBoard)
       /\ Checkerboard(lstReversedEmptyBoard)

C11_Witness ==
    /\ pc = "input"
    /\ bBorder /\ bCoordinates /\ ~bMoveIndicator
    /\ Cardinality(SquareLinesOf(lstReversedEmptyBoard)) = 64
    /\ Len(lstNormalEmptyBoard) > 64
\* the output documents that exist: the files written to the end and closed
Documents == {f \in files : f.closed}

(***************************************************************************)
(* C12: after a run over n well-formed positions whose files could all be  *)
(* opened, n output documents exist, one per position, in both naming      *)
(* modes, also when two positions of the run are the same.                 *)
(***************************************************************************)
C12_OneDocumentPerPosition ==
    (/\ pc = "done"
     /\ lstFEN # <<>>
     /\ \A i \in 1..Len(lstFEN) : WellFormed(lstFEN[i]) /\ DocumentWrittenFor(i))
    => Cardinality(Documents) = Len(lstFEN)
\* the k-th event of the history wrote a diagram to the end
Written(k) == history[k].opened /\ history[k].end = "returned"

DigitNames == <<"0", "1", "2", "3", "4", "5", "6", "7", "8", "9">>

\* 'dia', k as 5 zero-padded digits, '.svg'
SequentialName(k) ==
    <<"d", "i", "a">>
    \o <<DigitNames[((k \div 10000) % 10) + 1], DigitNames[((k \div 1000) % 10) + 1], DigitNames[((k \div 100) % 10) + 1], DigitNames[((k \div 10) % 10) + 1], DigitNames[(k % 10) + 1]>>
    \o <<".", "s", "v", "g">>

(***************************************************************************)
(* C13: with filename-from-position disabled, the k-th diagram written in  *)
(* a run is named 'dia', k as 5 zero-padded digits, '.svg': the count      *)
(* starts at 1 and grows by one per written diagram, without gap or repeat.*)
(***************************************************************************)
C13_SequentialNamesWithoutGap ==
    ~bPositionAsFileName
    => \A k \in 1..Len(history) :
           Written(k) => history[k].name = SequentialName(Cardinality({j \in 1..k : Written(j)}))

\* the same, for the runs in which every file could be opened
C13_SequentialNamesWhenAllOpened ==
    (~bPositionAsFileName /\ \A k \in 1..Len(history) : history[k].opened)
    => \A k \in 1..Len(history) :
           Written(k) => history[k].name = SequentialName(Cardinality({j \in 1..k : Written(j)}))

\* C12 for the sequential names only
C12_OneDocumentPerPositionNumbered ==
    ~bPositionAsFileName => C12_OneDocumentPerPosition
\* the characters a FEN-derived file name keeps: digits 1-8 and piece letters
NameCharacters == DOMAIN EmptyRunDigits \cup PieceLetters

KeptCharacters(field) == SelectSeq(field, LAMBDA c : c \in NameCharacters)

(***************************************************************************)
(* C14: the FEN-derived file name of a string is the digits 1-8 and piece  *)
(* letters of its placement field, in order, then 'b' if black is to move  *)
(* and 'w' otherwise, then '.svg'; the colour letter agrees with what      *)
(* isWhiteToPlay reports for the same string.                              *)
(***************************************************************************)
C14_NameFromPosition ==
    call.op = "generateFENFileName"
    => /\ call.result = KeptCharacters(PlacementField(call.sFEN)) \o <<IF BlackToMove(call.sFEN) THEN "b" ELSE "w">> \o <<".", "s", "v", "g">>
       /\ Len(call.result) >= 5
       /\ (call.result[Len(call.result) - 4] = "w") = isWhiteToPlay(call.sFEN)

C14_Witness ==
    /\ call.op = "generateFENFileName"
    /\ BlackToMove(call.sFEN)
    /\ Len(call.result) = 41
    /\ Len(PlacementField(call.sFEN)) = 43

\* the index of the first character of the token after the placement
\* field, 0 when nothing but blanks follows the field
TokenStart(sFEN) ==
    LET after == {i \in (Len(PlacementField(sFEN)) + 1)..Len(sFEN) : sFEN[i] # " "}
    IN  IF after = {} THEN 0 ELSE CHOOSE i \in after : \A j \in after : i <= j

\* text that may follow a string
Trailers == {<<"b">>, <<" ", "b">>, <<"w", " ", "b", " ", "b">>}

ExactClosingMarker(line) == line \in {<<"<", "/", "s", "v", "g", ">">>, <<"<", "/", "s", "v", "g", ">", "\n">>}

\* the template can be read and starts as it must, and its last line is not
\* the closing marker
ClosingMarkerMissing(file) ==
    /\ ~TemplateUnusable(file)
    /\ ~ExactClosingMarker(file.lines[Len(file.lines)])

\* main accepted the command line and is past readTemplate and
\* addLengthsToTemplate
TemplateWasProcessed == pc \notin {"start", "template"} /\ parseArguments(envOptions, envOperands).exit = "none"

(***************************************************************************)
(* C16: the template is accepted only if its last line is exactly the      *)
(* closing marker '</svg>'; for any other last line, also one that only    *)
(* starts with '</svg>', addLengthsToTemplate returns false and the run    *)
(* ends with a non-zero exit before any diagram is produced.               *)
(***************************************************************************)
C16_ClosingMarkerMustBeExact ==
    (ClosingMarkerMissing(envTemplate) /\ TemplateWasProcessed)
    => /\ pc = "done"
       /\ exitStatus \notin {"running", "EXIT_SUCCESS"}
       /\ files = {}
       /\ history = <<>>

\* the same, for the last lines that do not start with the closing marker
C16_ClosingMarkerMustStartLastLine ==
    (/\ ClosingMarkerMissing(envTemplate)
     /\ SubSeq(envTemplate.lines[Len(envTemplate.lines)], 1, 6) # <<"<", "/", "s", "v", "g", ">">>
     /\ TemplateWasProcessed)
    => /\ pc = "done"
       /\ exitStatus \notin {"running", "EXIT_SUCCESS"}
       /\ files = {}
       /\ history = <<>>
\* the option letters fen2svg knows
KnownOptions == {"h", "b", "c", "m", "p", "r", "f", "s"}

NoArgument == envOptions = <<>> /\ envOperands = <<>>

NoOperand == envOperands = <<>>

UnknownOption == \E i \in 1..Len(envOptions) : envOptions[i] \notin KnownOptions

BothInputModes == {"f", "s"} \subseteq Range(envOptions)

\* nothing was processed: no template, no input, no diagram
NothingProcessed == lstTemplate = <<>> /\ lstFEN = <<>> /\ history = <<>> /\ files = {}

UsageErrorEndsRun ==
    pc # "start" => /\ pc = "done"
                    /\ exitStatus \notin {"running", "EXIT_SUCCESS"}
                    /\ NothingProcessed

(***************************************************************************)
(* C17: a command line with no argument at all, with no operand, with an   *)
(* unrecognized option letter, or with both -f and -s in either order,     *)
(* ends the run with a non-zero exit status before the template is read,   *)
(* any input is read or any diagram is written.                            *)
(***************************************************************************)
C17_UsageErrorsAreFatal ==
    ("h" \notin Range(envOptions) /\ (NoArgument \/ NoOperand \/ UnknownOption \/ BothInputModes))
    => UsageErrorEndsRun

\* the same, for the command lines whose option letters are all known
C17_UsageErrorsOfKnownOptionsAreFatal ==
    ("h" \notin Range(envOptions) /\ ~UnknownOption /\ (NoArgument \/ NoOperand \/ BothInputModes))
    => UsageErrorEndsRun
NoFeature == ~bBorder /\ ~bCoordinates /\ ~bMoveIndicator /\ ~bRotateBoard /\ ~bPositionAsFileName

\* the documents written for the empty board 8/8/8/8/8/8/8/8 w - - 0 1
EmptyBoardDocuments ==
    {f \in Documents : \E k \in 1..Len(history) : Written(k) /\ history[k].name = f.name /\ history[k].sFEN = FenEmptyBoard}

\* the definitions layer: the lines of template.svg as they are in the file
DefinitionsLayer == [i \in 1..Len(envTemplate.lines) |-> TextLine(stripNewline(envTemplate.lines[i]))]

\* the lines from the (n + 1)-th on are 64 square instructions, those of
\* the checkerboard without border and coordinates, then the closing
\* marker, and no instruction draws a piece
SquaresThenClosingMarker(lines, n) ==
    /\ Len(lines) = n + 64 + 1
    /\ {<<lines[i].tag, lines[i].href, lines[i].x, lines[i].y>> : i \in (n + 1)..(n + 64)} = {<<"use">> \o square : square \in CheckerboardSquares(FALSE, FALSE)}
    /\ lines[n + 65] = ClosingLine

(***************************************************************************)
(* C18 (as stated): for 8/8/8/8/8/8/8/8 w - - 0 1 with no feature enabled  *)
(* the output document holds the definitions layer unmodified, then        *)
(* exactly 64 square instructions, no piece instruction and the closing    *)
(* marker, and its canvas is 576 wide and 576 high.                        *)
(***************************************************************************)
C18_EmptyBoardKeepsDefinitionsLayer ==
    NoFeature
    => \A f \in EmptyBoardDocuments :
           /\ Len(f.lines) >= Len(DefinitionsLayer)
           /\ SubSeq(f.lines, 1, Len(DefinitionsLayer)) = DefinitionsLayer
           /\ \E i \in 1..Len(f.lines) : f.lines[i] = SvgOpenLine(8 * 72, 8 * 72)
           /\ SquaresThenClosingMarker(f.lines, Len(DefinitionsLayer))

(***************************************************************************)
(* C18 (amended): for 8/8/8/8/8/8/8/8 w - - 0 1 with no feature enabled    *)
(* the output document holds the definitions layer with its opening line   *)
(* rewritten to carry the width 576 and the height 576 and its closing     *)
(* line replaced by a blank line, the lines in between unmodified, then    *)
(* exactly 64 square instructions, no piece instruction and the closing    *)
(* marker.                                                                 *)
(***************************************************************************)
C18_EmptyBoardDocument ==
    NoFeature
    => \A f \in EmptyBoardDocuments :
           LET n == Len(DefinitionsLayer)
           IN  /\ n >= 2
               /\ Len(f.lines) >= n
               /\ f.lines[1] = SvgOpenLine(8 * 72, 8 * 72)
               /\ SubSeq(f.lines, 2, n - 1) = SubSeq(DefinitionsLayer, 2, n - 1)
               /\ f.lines[n] = TextLine(<<"\n">>)
               /\ SquaresThenClosingMarker(f.lines, n)

C18_Witness ==
    /\ NoFeature
    /\ pc = "done"
    /\ exitStatus = "EXIT_SUCCESS"
    /\ \E f \in EmptyBoardDocuments : Len(f.lines) = 3 + 64 + 1 /\ f.lines[2] = TextLine(stripNewline(TplDefs))
\* the pixel origins of the square instructions of a board layer
SquareOrigins(board) == {<<board[i].x, board[i].y>> : i \in SquareLinesOf(board)}

\* the pixel origin of the first instruction of a piece list
OriginOf(lstPieces) == <<lstPieces.items[1].x, lstPieces.items[1].y>>

(***************************************************************************)
(* C19: in every configuration, for every file and rank in 0..7, a piece   *)
(* on the square (file, rank) drawn with white at the bottom has the pixel *)
(* origin of a piece on the square (7 - file, 7 - rank) drawn with black   *)
(* at the bottom, and this origin is the origin of one of the 64 square    *)
(* instructions of the empty-board layer.                                  *)
(***************************************************************************)
C19_OrientationsArePointReflections ==
    call.op = "squareOrigin"
    => /\ ~call.white.null /\ ~call.black.null
       /\ call.white.items # <<>> /\ call.black.items # <<>>
       /\ call.white.items[1].href = "whiteking" /\ call.black.items[1].href = "whiteking"
       /\ OriginOf(call.white) = OriginOf(call.black)
       /\ OriginOf(call.white) = <<BoardOriginX(call.bBorder, call.bCoordinates) + 72 * call.file, BoardOriginY(call.bBorder) + 72 * (7 - call.rank)>>
       /\ Cardinality(SquareOrigins(call.lstNormalEmptyBoard)) = 64
       /\ Cardinality(SquareOrigins(call.lstReversedEmptyBoard)) = 64
       /\ OriginOf(call.white) \in SquareOrigins(call.lstNormalEmptyBoard)
       /\ OriginOf(call.black) \in SquareOrigins(call.lstReversedEmptyBoard)

C19_Witness ==
    /\ call.op = "squareOrigin"
    /\ call.file = 2 /\ call.rank = 6
    /\ call.bBorder /\ call.bCoordinates
    /\ OriginOf(call.black) = <<48 + 2 + 144, 2 + 72>>
\* the y of the lower edge of the board area: below the squares and, when
\* there is one, the border
BoardBottom(border) == 8 * 72 + (IF border THEN 2 * 2 ELSE 0)

\* the labels of a board layer are aligned with its rows and columns
LabelsAligned(board) ==
    LET beside == RankLabelsOf(board)
        under == FileLabelsOf(board)
    IN  /\ Len(beside) = 8 /\ Len(under) = 8
        /\ \A k \in 0..7 :
              /\ beside[k + 1].y = BoardOriginY(bBorder) + 72 * k
              /\ under[k + 1].x = BoardOriginX(bBorder, bCoordinates) + 72 * k
              /\ under[k + 1].y = BoardBottom(bBorder)

BoardsGenerated == pc \in {"input", "diagrams"} \/ (pc = "done" /\ lstFEN # <<>>)

(***************************************************************************)
(* C20: with coordinates enabled, with the border on or off and in both    *)
(* orientations, the k-th rank label has the y of the squares of board row *)
(* k and the k-th file label has the x of the squares of board column k    *)
(* (k in 0..7), and the file labels are directly below the board area.     *)
(***************************************************************************)
C20_LabelsAlignedWithSquares ==
    (BoardsGenerated /\ bCoordinates)
    => LabelsAligned(lstNormalEmptyBoard) /\ LabelsAligned(lstReversedEmptyBoard)

\* the same, with the border on
C20_LabelsAlignedWithSquaresInsideBorder ==
    (BoardsGenerated /\ bCoordinates /\ bBorder)
    => LabelsAligned(lstNormalEmptyBoard) /\ LabelsAligned(lstReversedEmptyBoard)
\* readFENFile was called and has read lines
FileCalled == call.op = "readFENFile"

(***************************************************************************)
(* C21: readFENFile keeps at most the first 75 characters of each input    *)
(* line as one list entry, and every write it makes to its 75-element      *)
(* excerpt buffer, the terminator included, is at an index in 0..74, for   *)
(* lines of every length.                                                  *)
(***************************************************************************)
C21_ExcerptWritesInsideBuffer ==
    FileCalled
    => /\ \A i \in 1..Len(call.lstFENString) : Len(call.lstFENString[i]) <= 75
       /\ call.writes \subseteq 0..74

\* the entries alone: each holds at most the first 75 characters of what
\* fgets read
C21_EntriesAreExcerpts ==
    FileCalled
    => \A i \in 1..Len(call.lstFENString) : Len(call.lstFENString[i]) <= 75
\* one entry for each line of the file, once the file is read to its end
C21_OneEntryPerLine ==
    (FileCalled /\ call.file.exists /\ call.end \in {"returned false", "returned true"})
    => Len(call.lstFENString) = Len(call.file.lines)
\* the positions the loop of writeDiagramsToFiles has visited, in order
VisitedItems == [k \in 1..Len(history) |-> history[k].item]

\* each position of the list was visited once, in the order of the list,
\* and its turn of the loop ran to its end
EachItemVisitedOnce ==
    /\ VisitedItems = [k \in 1..Len(lstFEN) |-> k]
    /\ \A k \in 1..Len(history) : history[k].end = "returned" /\ history[k].sFEN = lstFEN[k]

\* where the loop is: the item it is at is the one after the visited ones,
\* and it is past the last item only when all are visited
LoopProgress ==
    pc = "diagrams"
    => /\ Len(history) <= Len(lstFEN)
       /\ itmFEN = (IF Len(history) < Len(lstFEN) THEN Len(history) + 1 ELSE 0)

\* the turn of the loop for a position ran from the parse to the end of
\* writeListsToFile, and the document is complete if its file was opened
ProcessedToCompletion(k) ==
    /\ history[k].parsed
    /\ history[k].end = "returned"
    /\ history[k].opened
       => \E f \in Documents : f.name = history[k].name /\ f.lines[Len(f.lines)] = ClosingLine

\* every string of the list is one createPieces parses
AllParsed == \A i \in 1..Len(lstFEN) : ~Malformed(lstFEN[i])

C22_EachPositionVisitedOnce ==
    (pc = "done" /\ lstFEN # <<>>) => EachItemVisitedOnce

\* a turn of the loop moves to the next item, or ends the process
C22_TurnMovesToNextItem ==
    [][(pc = "diagrams" /\ itmFEN # 0)
       => \/ itmFEN' = (IF itmFEN < Len(lstFEN) THEN itmFEN + 1 ELSE 0) /\ Len(history') = Len(history) + 1
          \/ pc' = "done"]_vars

\* the run ends
C22_RunEnds == <>(pc = "done")
(***************************************************************************)
(* C23: for every input string, generateFENFileName writes only inside     *)
(* the strlen(sFEN) + 5 bytes it allocated, the terminator included, also  *)
(* for a string without a space that holds admitted characters only.       *)
(***************************************************************************)
C23_NameWrittenInsideAllocation ==
    call.op = "generateFENFileName"
    => call.nOutputPos <= call.nAllocated /\ call.heap = "intact"

\* the strings for which a byte is stored past the allocation: those with
\* neither a space nor a character that is left out of the name
C23_OneByteTooManyWhenAllKept ==
    call.op = "generateFENFileName"
    => /\ call.nOutputPos <= call.nAllocated + 1
       /\ (call.nOutputPos > call.nAllocated) = (\A i \in 1..Len(call.sFEN) : call.sFEN[i] \in NameCharacters)
RECURSIVE WalkFrom(_, _, _)
\* the items met from itm on by following Next, at most n of them
WalkFrom(lstList, itm, n) ==
    IF itm = NULL \/ n = 0 THEN <<>>
    ELSE <<itm>> \o WalkFrom(lstList, lstList.items[itm].Next, n - 1)

\* the walk from First; one more step than there are items shows a cycle
Walk(lstList) == WalkFrom(lstList, lstList.First, Len(lstList.items) + 1)

WalkValues(lstList) == [k \in 1..Len(Walk(lstList)) |-> lstList.items[Walk(lstList)[k]].Value]

RECURSIVE ValuesAfter(_)
\* what a FIFO list holds after the calls of a log: an append adds its
\* value at the end, a modification replaces the value of the item it is
\* given, the k-th item created being the k-th of the list
ValuesAfter(log) ==
    IF log = <<>> THEN <<>>
    ELSE LET before == ValuesAfter(SubSeq(log, 1, Len(log) - 1))
             last == log[Len(log)]
         IN  IF last.op = "appendToList" THEN Append(before, last.sValue)
             ELSE IF last.itmCurrent = NULL THEN before
             ELSE [before EXCEPT ![last.itmCurrent] = last.sValue]

(***************************************************************************)
(* C24: after any sequence of appendToList and modifyItemValue calls on a  *)
(* list made by createEmptyList, the walk from First yields the values in  *)
(* insertion order, a modified item holds its new value while every other  *)
(* item and the order are unchanged, Last is the final item of the walk,   *)
(* and First is NULL exactly when Last is NULL.                            *)
(***************************************************************************)
C24_ListIsFifo ==
    call.op = "list"
    => LET lstList == call.lstList
           walk == Walk(lstList)
       IN  /\ Len(walk) = Len(lstList.items)
           /\ walk = [k \in 1..Len(walk) |-> k]
           /\ WalkValues(lstList) = ValuesAfter(call.log)
           /\ (lstList.First = NULL) = (lstList.Last = NULL)
           /\ lstList.First # NULL => lstList.Last = walk[Len(walk)] /\ lstList.items[lstList.Last].Next = NULL

\* three values appended and the last one modified
C24_Witness ==
    /\ call.op = "list"
    /\ call.exit = "none"
    /\ Len(call.log) = 4
    /\ call.log[4].op = "modifyItemValue" /\ call.log[4].itmCurrent = call.lstList.Last
    /\ WalkValues(call.lstList) = << <<"a">>, <<"b", "c">>, <<"a">> >>
    /\ call.log[3].sValue = <<"b", "c">>
====
